---- MODULE Spec2Model ----
(***************************************************************************)
(* Model of extranet/models/_coder.py: the CSV codec of Hours entries      *)
(* (_csv_parse, csv_dump, parse_time), the de-duplicating import           *)
(* (csv_get_or_create), the Month get-or-create and the two billing-month  *)
(* mutators of Hours.                                                      *)
(*                                                                         *)
(* Text fields that the code converts (tags, times, date, amount) are      *)
(* sequences of one-character strings; fields that the code only looks up  *)
(* or copies (username, project name, repository name, issue number,       *)
(* comment) are strings.                                                   *)
(***************************************************************************)
EXTENDS Integers, Sequences, FiniteSets, TLC

\* Python's None for values that are tuples when present.
None == <<>>
\* Python's None for values that are strings when present.
NoneS == "None"

(***************************************************************************)
(* Character-level helpers: str.split, str.strip, str.lower, str.join and  *)
(* the digit fields of time.strptime / strftime.                           *)
(***************************************************************************)
DigitChars == {"0", "1", "2", "3", "4", "5", "6", "7", "8", "9"}

DigitVal(c) ==
    CASE c = "0" -> 0 [] c = "1" -> 1 [] c = "2" -> 2 [] c = "3" -> 3
      [] c = "4" -> 4 [] c = "5" -> 5 [] c = "6" -> 6 [] c = "7" -> 7
      [] c = "8" -> 8 [] c = "9" -> 9

DigitChar(n) ==
    CASE n = 0 -> "0" [] n = 1 -> "1" [] n = 2 -> "2" [] n = 3 -> "3"
      [] n = 4 -> "4" [] n = 5 -> "5" [] n = 6 -> "6" [] n = 7 -> "7"
      [] n = 8 -> "8" [] n = 9 -> "9"

IsDigits(s) == Len(s) > 0 /\ \A i \in 1..Len(s) : s[i] \in DigitChars

RECURSIVE NatOf(_)
NatOf(s) ==
    IF s = <<>> THEN 0
    ELSE 10 * NatOf(SubSeq(s, 1, Len(s) - 1)) + DigitVal(s[Len(s)])

RECURSIVE NatChars(_)
NatChars(n) ==
    IF n < 10 THEN <<DigitChar(n)>>
    ELSE NatChars(n \div 10) \o <<DigitChar(n % 10)>>

\* '%02d'
Pad2(n) == <<DigitChar((n \div 10) % 10), DigitChar(n % 10)>>

\* '%04d'
Pad4(n) == Pad2(n \div 100) \o Pad2(n % 100)

\* x.split(c): the pieces of s between the occurrences of c.
RECURSIVE Split(_, _)
Split(s, c) ==
    IF \A i \in 1..Len(s) : s[i] # c THEN <<s>>
    ELSE LET k == CHOOSE i \in 1..Len(s) :
                     s[i] = c /\ \A j \in 1..(i - 1) : s[j] # c
         IN  <<SubSeq(s, 1, k - 1)>> \o Split(SubSeq(s, k + 1, Len(s)), c)

\* x.strip()
RECURSIVE Strip(_)
Strip(s) ==
    IF s = <<>> THEN s
    ELSE IF s[1] = " " THEN Strip(Tail(s))
    ELSE IF s[Len(s)] = " " THEN Strip(SubSeq(s, 1, Len(s) - 1))
    ELSE s

LowerChar(c) ==
    CASE c = "A" -> "a" [] c = "B" -> "b" [] c = "D" -> "d" [] c = "E" -> "e"
      [] c = "M" -> "m" [] c = "P" -> "p" [] c = "V" -> "v" [] OTHER -> c

\* x.lower()
Lower(s) == [i \in 1..Len(s) |-> LowerChar(s[i])]

\* sep.join(parts)
RECURSIVE Join(_, _)
Join(parts, sep) ==
    IF parts = <<>> THEN <<>>
    ELSE IF Len(parts) = 1 THEN parts[1]
    ELSE parts[1] \o <<sep>> \o Join(Tail(parts), sep)

\* filter(None, xs): drop the empty strings, keep order and repetitions.
RECURSIVE FilterNonEmpty(_)
FilterNonEmpty(xs) ==
    IF xs = <<>> THEN <<>>
    ELSE IF xs[1] = <<>> THEN FilterNonEmpty(Tail(xs))
    ELSE <<xs[1]>> \o FilterNonEmpty(Tail(xs))

Range(f) == {f[i] : i \in DOMAIN f}

(***************************************************************************)
(* parse_time and the two TIME_FORMATS.  A time is <<hour, minute,         *)
(* second>>; None when the text is empty or matches neither format.        *)
(***************************************************************************)
\* a strptime numeric field of one or two digits within lo..hi
Field2(s, lo, hi) ==
    IsDigits(s) /\ Len(s) <= 2 /\ NatOf(s) >= lo /\ NatOf(s) <= hi

\* time.strptime(x, '%H:%M')
Match24(x) ==
    LET p == Split(x, ":")
    IN  Len(p) = 2 /\ Field2(p[1], 0, 23) /\ Field2(p[2], 0, 59)

Time24(x) ==
    LET p == Split(x, ":") IN <<NatOf(p[1]), NatOf(p[2]), 0>>

\* time.strptime(x, '%I:%M:%S %p')
Match12(x) ==
    LET w == FilterNonEmpty(Split(x, " "))
    IN  /\ Len(w) = 2
        /\ x[1] # " " /\ x[Len(x)] # " "
        /\ Lower(w[2]) \in {<<"a", "m">>, <<"p", "m">>}
        /\ LET p == Split(w[1], ":")
           IN  /\ Len(p) = 3
               /\ Field2(p[1], 1, 12)
               /\ Field2(p[2], 0, 59)
               /\ Field2(p[3], 0, 61)

Time12(x) ==
    LET w  == FilterNonEmpty(Split(x, " "))
        p  == Split(w[1], ":")
        hr == NatOf(p[1]) % 12
        pm == Lower(w[2]) = <<"p", "m">>
    IN  <<IF pm THEN hr + 12 ELSE hr, NatOf(p[2]), NatOf(p[3])>>

parse_time(x) ==
    IF x = <<>> THEN None
    ELSE IF Match24(x) THEN Time24(x)
    ELSE IF Match12(x) THEN Time12(x)
    ELSE None

\* frmt_time with the hour not padded ('%k:%M' for '%H:%M')
frmt_time_unpadded(t) ==
    IF t = None THEN <<>> ELSE NatChars(t[1]) \o <<":">> \o Pad2(t[2])

\* frmt_time = lambda t: t.strftime(TIME_FORMATS[0]) if t else ''
frmt_time(t) ==
    IF t = None THEN <<>> ELSE Pad2(t[1]) \o <<":">> \o Pad2(t[2])

(***************************************************************************)
(* DATE_FORMAT '%Y-%m-%d'.  A date is <<year, month, day>>.                *)
(***************************************************************************)
IsLeap(y) == (y % 4 = 0 /\ y % 100 # 0) \/ y % 400 = 0

DaysIn(y, m) ==
    IF m = 2 THEN (IF IsLeap(y) THEN 29 ELSE 28)
    ELSE IF m \in {4, 6, 9, 11} THEN 30 ELSE 31

\* datetime.datetime.strptime(date, DATE_FORMAT) succeeds
DateOk(x) ==
    LET p == Split(x, "-")
    IN  /\ Len(p) = 3
        /\ IsDigits(p[1]) /\ Len(p[1]) = 4
        /\ Field2(p[2], 1, 12)
        /\ Field2(p[3], 1, 31)
        /\ NatOf(p[3]) <= DaysIn(NatOf(p[1]), NatOf(p[2]))

DateOf(x) ==
    LET p == Split(x, "-") IN <<NatOf(p[1]), NatOf(p[2]), NatOf(p[3])>>

\* obj.date.strftime(DATE_FORMAT)
DateStr(d) == Pad4(d[1]) \o <<"-">> \o Pad2(d[2]) \o <<"-">> \o Pad2(d[3])

(***************************************************************************)
(* Decimal(hrs or '0').  A Decimal is <<coefficient, places>>, its value   *)
(* coefficient / 10^places; the amount column keeps two places.            *)
(***************************************************************************)
DecimalOk(x) ==
    LET p == Split(x, ".")
    IN  \/ Len(p) = 1 /\ IsDigits(p[1])
        \/ Len(p) = 2 /\ IsDigits(p[1]) /\ IsDigits(p[2]) /\ Len(p[2]) <= 2

DecimalOf(x) ==
    LET p == Split(x, ".")
    IN  IF Len(p) = 1 THEN <<NatOf(p[1]), 0>>
        ELSE <<NatOf(p[1] \o p[2]), Len(p[2])>>

\* the value of a Decimal in hundredths: what equality and the column compare
Hundredths(dec) ==
    IF dec[2] = 0 THEN dec[1] * 100
    ELSE IF dec[2] = 1 THEN dec[1] * 10 ELSE dec[1]

\* unicode(obj.amount)
DecimalStr(dec) ==
    IF dec[2] = 0 THEN NatChars(dec[1])
    ELSE IF dec[2] = 1
         THEN NatChars(dec[1] \div 10) \o <<".">> \o <<DigitChar(dec[1] % 10)>>
         ELSE NatChars(dec[1] \div 100) \o <<".">> \o Pad2(dec[1] % 100)

(***************************************************************************)
(* The collaborators _csv_parse consults: users with their group projects, *)
(* projects by name, repositories by name, issues by number.               *)
(***************************************************************************)
\* User.objects: the usernames that exist
Users == {"alice", "bob", "idle"}

\* Coder._iter_projects: the projects of the user's groups
UserProjects(u) ==
    CASE u = "alice" -> {"Acme"}
      [] u = "bob"   -> {"Acme", "Beta"}
      [] OTHER       -> {}

\* Project.objects: the project names that exist
ProjectNames == {"Acme", "Beta"}

\* Repository.objects.try_to_get_by_name(repo): the repository or None
try_to_get_by_name(repo) ==
    IF repo \in {"repo-x", "tools"} THEN repo ELSE NoneS

\* Repository.get_distinct_name()
get_distinct_name(repository) ==
    IF repository = "tools" THEN "acme/tools" ELSE repository

\* repository.try_to_get_issue(iss): the issue <<repository, number>> or None
try_to_get_issue(repository, iss) ==
    IF repository = "repo-x" /\ iss \in {"42", "7", "8"}
    THEN <<repository, iss>> ELSE None

\* issue.try_to_get_project(): the project of the issue or None
try_to_get_project(issue) ==
    IF issue[2] = "42" THEN "Acme"
    ELSE IF issue[2] = "7" THEN "Beta" ELSE NoneS

(***************************************************************************)
(* Coder: a user and the project list computed at construction.            *)
(***************************************************************************)
NoCoder == None

\* Coder.__init__ taking every project for the user's
CoderOfAllProjects(user) == <<user, ProjectNames>>

\* Coder.__init__, once the project list is known to be non-empty
Coder(user) == <<user, UserProjects(user)>>

\* Coder.get(username=usr): the error it raises, "ok" when it returns
CoderGetError(usr) ==
    IF usr \notin Users THEN "User.DoesNotExist"
    ELSE IF UserProjects(usr) = {} THEN "NoCoderProjects"
    ELSE "ok"

(***************************************************************************)
(* HoursManager._csv_parse.  The result is the pending Hours object, or    *)
(* [err |-> e] naming the exception raised.                                *)
(***************************************************************************)
Failure(e) == [err |-> e]

\* filter(None, [x.strip().lower() for x in tags.split(',')])
NormalizeTags(tags) ==
    LET parts == Split(tags, ",")
    IN  FilterNonEmpty([i \in 1..Len(parts) |-> Lower(Strip(parts[i]))])

\* json.dumps(row): the text determines the row; kept as the wrapped row
JsonDumps(row) == <<row>>

\* lines 82-115, after the coder and the tags are known
ParseRest(row, coder, fields, tags) ==
    LET proj       == fields[1]
        date       == fields[2]
        strt       == fields[3]
        end        == fields[4]
        hrs        == fields[5]
        repo       == fields[7]
        iss        == fields[8]
        comment    == fields[9]
        repository == try_to_get_by_name(repo)
        issue      == IF repository # NoneS
                      THEN try_to_get_issue(repository, iss) ELSE None
        a          == IF proj # "" THEN proj ELSE NoneS
        b          == IF issue # None THEN try_to_get_project(issue) ELSE NoneS
        project    == IF a # NoneS THEN a ELSE b
    IN  IF proj # "" /\ proj \notin ProjectNames
            THEN Failure("Project.DoesNotExist")
        ELSE IF a # NoneS /\ b # NoneS /\ a # b
            THEN Failure("AssertionError: a == b")
        ELSE IF project = NoneS
            THEN Failure("AssertionError: project")
        ELSE IF ~DateOk(date)
            THEN Failure("ValueError: date")
        ELSE IF hrs # <<>> /\ ~DecimalOk(hrs)
            THEN Failure("InvalidOperation: amount")
        ELSE IF project \notin coder[2]
            THEN Failure("AssertionError: Not allowed")
        ELSE [err             |-> "ok",
              pk              |-> 0,
              project         |-> project,
              date            |-> DateOf(date),
              amount          |-> DecimalOf(IF hrs # <<>> THEN hrs ELSE <<"0">>),
              coder           |-> coder[1],
              repository      |-> repository,
              issue           |-> issue,
              start_time      |-> parse_time(strt),
              end_time        |-> parse_time(end),
              comment         |-> comment,
              input_data_json |-> JsonDumps(row),
              tags_to_be      |-> tags]

\* _csv_parse with the tags tested after the other fields
ParseTagsLate(row, coder, fields) ==
    LET tags == NormalizeTags(fields[6])
        rest == ParseRest(row, coder, fields, tags)
    IN  IF rest.err # "ok" THEN rest
        ELSE IF tags = <<>> THEN Failure("AtLeastOneTagRequired")
        ELSE rest

\* lines 77-80 and on
ParseTags(row, coder, fields) ==
    LET tags == NormalizeTags(fields[6])
    IN  IF tags = <<>> THEN Failure("AtLeastOneTagRequired")
        ELSE ParseRest(row, coder, fields, tags)

_csv_parse(row, coder) ==
    IF coder = NoCoder
    THEN IF Len(row) # 10 THEN Failure("ValueError: unpack")
         ELSE IF CoderGetError(row[1]) # "ok" THEN Failure(CoderGetError(row[1]))
         ELSE ParseTags(row, Coder(row[1]), Tail(row))
    ELSE IF Len(row) # 9 THEN Failure("ValueError: unpack")
         ELSE ParseTags(row, coder, row)

(***************************************************************************)
(* HoursManager.csv_dump: the list of values handed to csv.writer, each    *)
(* as the text utf8_safe makes of it.  The writer joins them with ';'.     *)
(* tagNames is [t.name for t in obj.tags.all()] of a persisted obj.        *)
(***************************************************************************)
DumpValues(obj, omit_coder, tagNames) ==
    LET tags == IF obj.pk # 0 THEN tagNames ELSE obj.tags_to_be
    IN  (IF omit_coder THEN <<>> ELSE <<obj.coder>>) \o
        << IF obj.project # NoneS THEN obj.project ELSE "",
           DateStr(obj.date),
           frmt_time(obj.start_time),
           frmt_time(obj.end_time),
           DecimalStr(obj.amount),
           Join(tags, ","),
           IF obj.repository # NoneS THEN get_distinct_name(obj.repository) ELSE "",
           IF obj.issue # None THEN obj.issue[2] ELSE "",
           obj.comment >>

csv_dump(obj, omit_coder) == DumpValues(obj, omit_coder, <<>>)

(***************************************************************************)
(* State.                                                                  *)
(*   hours     the Hours table: hours[pk] is the row with primary key pk,  *)
(*             its columns and its tag relation (the names of its tags)    *)
(*   hourtags  the HourTag table, by name                                  *)
(*   months    the Month table: months[pk] = <<year, month>>               *)
(*   pc        where each request stands                                   *)
(*   arg       the <<row, coder>> the request's csv_get_or_create was given *)
(*   parsed    the pending object _csv_parse returned to the request       *)
(*   obj       the request's in-memory Hours instance                      *)
(*   created   the flag get_or_create returned to the request              *)
(*   todo      the tag names the request has still to resolve              *)
(*   tags      the tags the request has resolved so far                    *)
(*   side      the billing column the request's mutator is assigning       *)
(*   log       the csv_get_or_create calls that have returned or raised    *)
(*   crow, ccoder, cobj, cout, cphase                                      *)
(*             a codec run: the row and coder given, the parsed object,    *)
(*             the dumped values, and how far the run is                   *)
(***************************************************************************)
VARIABLES hours, hourtags, months, pc, arg, parsed, obj, created, todo, tags,
          side, log, crow, ccoder, cobj, cout, cphase

store  == <<hours, hourtags, months>>
locals == <<pc, arg, parsed, obj, created, todo, tags, side>>
codec  == <<crow, ccoder, cobj, cout, cphase>>
vars   == <<hours, hourtags, months, pc, arg, parsed, obj, created, todo, tags,
           side, log, crow, ccoder, cobj, cout, cphase>>

\* the requests that may be in progress at once
Procs == {"r1", "r2"}

\* how many csv_get_or_create calls a behaviour makes
MaxCalls == 3

\* how many csv_get_or_create calls a behaviour of SpecBilling makes
MaxImports == 2

\* how many characters a generated tags field has at most
MaxTagsLen == 3

HOURS_IDENTITY_FIELDS(o) ==
    <<o.coder, o.project, o.date, Hundredths(o.amount), o.start_time,
      o.issue, o.repository, o.comment>>

\* DecimalField(max_digits=4, decimal_places=2): the column keeps two places
ToColumn(dec) == <<Hundredths(dec), 2>>

NoObj == Failure("none")

\* the row of the Hours table an instance is saved as; the tag relation
\* is not a column
RowOf(o, tagset) ==
    [coder |-> o.coder, project |-> o.project, date |-> o.date,
     amount |-> ToColumn(o.amount), start_time |-> o.start_time,
     issue |-> o.issue, repository |-> o.repository, comment |-> o.comment,
     end_time |-> o.end_time, input_data_json |-> o.input_data_json,
     coder_billing_month |-> o.coder_billing_month,
     project_billing_month |-> o.project_billing_month,
     tags |-> tagset]

\* the instance a query returns for the row pk
InstanceOf(pk, r) ==
    [pk |-> pk, coder |-> r.coder, project |-> r.project, date |-> r.date,
     amount |-> r.amount, start_time |-> r.start_time, issue |-> r.issue,
     repository |-> r.repository, comment |-> r.comment,
     end_time |-> r.end_time, input_data_json |-> r.input_data_json,
     coder_billing_month |-> r.coder_billing_month,
     project_billing_month |-> r.project_billing_month]

\* Hours(**q): the instance get_or_create builds from the identity fields,
\* every other column at its default
NewInstance(pk, q) ==
    [pk |-> pk, coder |-> q.coder, project |-> q.project, date |-> q.date,
     amount |-> q.amount, start_time |-> q.start_time, issue |-> q.issue,
     repository |-> q.repository, comment |-> q.comment,
     end_time |-> None, input_data_json |-> None,
     coder_billing_month |-> 0, project_billing_month |-> 0]

\* HOURS_EXTRA_FIELDS without 'end_time'
SetExtraFieldsNoEnd(o, q) ==
    [o EXCEPT !.input_data_json = q.input_data_json]

\* for key in HOURS_EXTRA_FIELDS: setattr(obj, key, getattr(parsed, key))
SetExtraFields(o, q) ==
    [o EXCEPT !.end_time = q.end_time, !.input_data_json = q.input_data_json]

\* Hours.objects.get(**q): the primary keys of the rows that match
Matching(q) ==
    {pk \in DOMAIN hours :
        HOURS_IDENTITY_FIELDS(hours[pk]) = HOURS_IDENTITY_FIELDS(q)}

LogEntry(row, coder, status, cr, pk) ==
    [row |-> row, coder |-> coder, status |-> status, created |-> cr, pk |-> pk]

\* the csv_get_or_create calls in progress
InFlight ==
    Cardinality({p \in Procs : pc[p] \in {"create", "tags", "clear", "add", "save"}})

InitStore ==
    /\ hours = <<>>
    /\ hourtags = {}
    /\ months = <<>>
    /\ pc = [p \in Procs |-> "idle"]
    /\ arg = [p \in Procs |-> <<>>]
    /\ parsed = [p \in Procs |-> NoObj]
    /\ obj = [p \in Procs |-> NoObj]
    /\ created = [p \in Procs |-> FALSE]
    /\ todo = [p \in Procs |-> <<>>]
    /\ tags = [p \in Procs |-> <<>>]
    /\ side = [p \in Procs |-> "none"]
    /\ log = <<>>

InitCodecIdle ==
    /\ crow = <<>>
    /\ ccoder = NoCoder
    /\ cobj = NoObj
    /\ cout = <<>>
    /\ cphase = "idle"

Init == InitStore /\ InitCodecIdle

(***************************************************************************)
(* HoursManager.csv_get_or_create, one action per access to the store.     *)
(***************************************************************************)
\* the call raises e: nothing of the request is kept (csv_get_or_create
\* raises from its first step only, where the request holds nothing yet)
Raise(p, row, coder, e) ==
    /\ log' = Append(log, LogEntry(row, coder, e, FALSE, 0))
    /\ pc' = [pc EXCEPT ![p] = "idle"]
    /\ parsed' = [parsed EXCEPT ![p] = NoObj]
    /\ obj' = [obj EXCEPT ![p] = NoObj]
    /\ UNCHANGED <<arg, created, todo, tags, side>>

\* lines 151-156: parse the row, then the lookup of get_or_create
csv_get_or_create(p, row, coder) ==
    /\ pc[p] = "idle"
    /\ Len(log) + InFlight < MaxCalls
    /\ LET q == _csv_parse(row, coder)
       IN  IF q.err # "ok"
           THEN Raise(p, row, coder, q.err)
           ELSE IF Cardinality(Matching(q)) > 1
           THEN Raise(p, row, coder, "MultipleObjectsReturned")
           ELSE IF Matching(q) = {}
           THEN /\ pc' = [pc EXCEPT ![p] = "create"]
                /\ arg' = [arg EXCEPT ![p] = <<row, coder>>]
                /\ parsed' = [parsed EXCEPT ![p] = q]
                /\ UNCHANGED <<obj, created, todo, tags, side, log>>
           ELSE LET pk == CHOOSE k \in Matching(q) : TRUE
                IN  /\ pc' = [pc EXCEPT ![p] = "tags"]
                    /\ arg' = [arg EXCEPT ![p] = <<row, coder>>]
                    /\ parsed' = [parsed EXCEPT ![p] = q]
                    /\ obj' = [obj EXCEPT ![p] =
                                  SetExtraFields(InstanceOf(pk, hours[pk]), q)]
                    /\ created' = [created EXCEPT ![p] = FALSE]
                    /\ todo' = [todo EXCEPT ![p] = q.tags_to_be]
                    /\ tags' = [tags EXCEPT ![p] = <<>>]
                    /\ UNCHANGED <<side, log>>
    /\ UNCHANGED <<store, codec>>

\* line 156, the insert of get_or_create when the lookup found nothing;
\* then lines 159-160 on the instance
CreateHours(p) ==
    /\ pc[p] = "create"
    /\ LET pk == Len(hours) + 1
           o  == NewInstance(pk, parsed[p])
       IN  /\ hours' = Append(hours, RowOf(o, {}))
           /\ obj' = [obj EXCEPT ![p] = SetExtraFields(o, parsed[p])]
    /\ created' = [created EXCEPT ![p] = TRUE]
    /\ todo' = [todo EXCEPT ![p] = parsed[p].tags_to_be]
    /\ tags' = [tags EXCEPT ![p] = <<>>]
    /\ pc' = [pc EXCEPT ![p] = "tags"]
    /\ UNCHANGED <<hourtags, months, arg, parsed, side, log, codec>>

\* HourTag.objects.get_or_create(name=tag_name) on a table unique on name
HourTagGetOrCreate(table, name) == table \cup {name}

\* lines 164-166, one turn of the loop
ResolveTag(p) ==
    /\ pc[p] = "tags"
    /\ todo[p] # <<>>
    /\ hourtags' = HourTagGetOrCreate(hourtags, Head(todo[p]))
    /\ tags' = [tags EXCEPT ![p] = Append(@, Head(todo[p]))]
    /\ todo' = [todo EXCEPT ![p] = Tail(@)]
    /\ pc' = [pc EXCEPT ![p] = IF Tail(todo[p]) = <<>> THEN "clear" ELSE "tags"]
    /\ UNCHANGED <<hours, months, arg, parsed, obj, created, side, log, codec>>

\* the tag relation were it not cleared before the tags are added
ClearedTagsKept(old) == old

\* the tag relation after manager.clear()
ClearedTags(old) == {}

\* line 167, obj.tags = tags: first the relation is cleared
ClearTags(p) ==
    /\ pc[p] = "clear"
    /\ hours' = [hours EXCEPT ![obj[p].pk].tags = ClearedTags(@)]
    /\ pc' = [pc EXCEPT ![p] = "add"]
    /\ UNCHANGED <<hourtags, months, arg, parsed, obj, created, todo, tags,
                   side, log, codec>>

\* the tag relation after manager.add(*tags)
AddedTags(old, new) == old \cup Range(new)

\* line 167, obj.tags = tags: then the tags are added
AddTags(p) ==
    /\ pc[p] = "add"
    /\ hours' = [hours EXCEPT ![obj[p].pk].tags = AddedTags(@, tags[p])]
    /\ pc' = [pc EXCEPT ![p] = "save"]
    /\ UNCHANGED <<hourtags, months, arg, parsed, obj, created, todo, tags,
                   side, log, codec>>

\* obj.save(): every column of the row is written from the instance
SavedRow(o, old) == RowOf(o, old.tags)

\* lines 169-171
SaveHours(p) ==
    /\ pc[p] = "save"
    /\ hours' = [hours EXCEPT ![obj[p].pk] = SavedRow(obj[p], @)]
    /\ log' = Append(log, LogEntry(arg[p][1], arg[p][2], "ok", created[p],
                                   obj[p].pk))
    /\ pc' = [pc EXCEPT ![p] = "idle"]
    /\ arg' = [arg EXCEPT ![p] = <<>>]
    /\ parsed' = [parsed EXCEPT ![p] = NoObj]
    /\ obj' = [obj EXCEPT ![p] = NoObj]
    /\ created' = [created EXCEPT ![p] = FALSE]
    /\ todo' = [todo EXCEPT ![p] = <<>>]
    /\ tags' = [tags EXCEPT ![p] = <<>>]
    /\ UNCHANGED <<hourtags, months, side, codec>>

(***************************************************************************)
(* MonthManager.get_from_date and the two billing mutators of Hours.  A    *)
(* mutator acts on the instance the request holds.                         *)
(***************************************************************************)
\* some_queryset.get(pk=pk): the request takes an instance of a stored row
Load(p, pk) ==
    /\ pc[p] = "idle"
    /\ pk \in DOMAIN hours
    /\ obj' = [obj EXCEPT ![p] = InstanceOf(pk, hours[pk])]
    /\ pc' = [pc EXCEPT ![p] = "loaded"]
    /\ UNCHANGED <<store, arg, parsed, created, todo, tags, side, log, codec>>

\* the request drops its instance
Release(p) ==
    /\ pc[p] = "loaded"
    /\ obj' = [obj EXCEPT ![p] = NoObj]
    /\ pc' = [pc EXCEPT ![p] = "idle"]
    /\ UNCHANGED <<store, arg, parsed, created, todo, tags, side, log, codec>>

\* Month.objects.get(year=date.year, month=date.month): the keys that match
MonthsOf(date) == {k \in DOMAIN months : months[k] = <<date[1], date[2]>>}

BillingMonth(o, s) ==
    IF s = "coder" THEN o.coder_billing_month ELSE o.project_billing_month

SetBillingMonth(o, s, k) ==
    IF s = "coder" THEN [o EXCEPT !.coder_billing_month = k]
    ELSE [o EXCEPT !.project_billing_month = k]

\* the mutator without its test
MustAssignAlways(o, s) == TRUE

\* whether the mutator assigns: `if not self.<side>_billing_month`
MustAssign(o, s) == BillingMonth(o, s) = 0

\* lines 278-279 / 283-284: the test, then the lookup of get_or_create in
\* get_from_date; with more than one match the lookup raises
\* MultipleObjectsReturned and the instance is as it was
BeginBilling(p, s) ==
    /\ pc[p] = "loaded"
    /\ IF ~MustAssign(obj[p], s) \/ Cardinality(MonthsOf(obj[p].date)) > 1
       THEN UNCHANGED <<pc, obj, side>>
       ELSE IF MonthsOf(obj[p].date) = {}
       THEN /\ pc' = [pc EXCEPT ![p] = "month_create"]
            /\ side' = [side EXCEPT ![p] = s]
            /\ UNCHANGED obj
       ELSE /\ pc' = [pc EXCEPT ![p] = "billing_save"]
            /\ side' = [side EXCEPT ![p] = s]
            /\ obj' = [obj EXCEPT ![p] = SetBillingMonth(@, s,
                          CHOOSE k \in MonthsOf(obj[p].date) : TRUE)]
    /\ UNCHANGED <<store, arg, parsed, created, todo, tags, log, codec>>

set_default_coder_billing_month(p) == BeginBilling(p, "coder")

set_default_project_billing_month(p) == BeginBilling(p, "project")

\* line 61, the insert of get_or_create when the lookup found nothing
CreateMonth(p) ==
    /\ pc[p] = "month_create"
    /\ months' = Append(months, <<obj[p].date[1], obj[p].date[2]>>)
    /\ obj' = [obj EXCEPT ![p] = SetBillingMonth(@, side[p], Len(months) + 1)]
    /\ pc' = [pc EXCEPT ![p] = "billing_save"]
    /\ UNCHANGED <<hours, hourtags, arg, parsed, created, todo, tags, side,
                   log, codec>>

\* lines 280 / 285: self.save()
SaveBilling(p) ==
    /\ pc[p] = "billing_save"
    /\ hours' = [hours EXCEPT ![obj[p].pk] = SavedRow(obj[p], @)]
    /\ pc' = [pc EXCEPT ![p] = "loaded"]
    /\ side' = [side EXCEPT ![p] = "none"]
    /\ UNCHANGED <<hourtags, months, arg, parsed, obj, created, todo, tags,
                   log, codec>>

\* the dates an entry is moved to
OtherDates == {<<2024, 3, 1>>, <<2024, 4, 2>>}

\* hours.date = d; hours.save() on the instance the request holds
ChangeDate(p, d) ==
    /\ pc[p] = "loaded"
    /\ obj[p].date # d
    /\ obj' = [obj EXCEPT ![p].date = d]
    /\ hours' = [hours EXCEPT ![obj[p].pk] = SavedRow([obj[p] EXCEPT !.date = d], @)]
    /\ UNCHANGED <<hourtags, months, pc, arg, parsed, created, todo, tags,
                   side, log, codec>>

(***************************************************************************)
(* A codec run: _csv_parse of a given row, then csv_dump of the result.    *)
(***************************************************************************)
CodecParse ==
    /\ cphase = "input"
    /\ cobj' = _csv_parse(crow, ccoder)
    /\ cphase' = "parsed"
    /\ UNCHANGED <<store, locals, log, crow, ccoder, cout>>

CodecDump ==
    /\ cphase = "parsed"
    /\ cobj.err = "ok"
    /\ \E omit_coder \in BOOLEAN : cout' = csv_dump(cobj, omit_coder)
    /\ cphase' = "dumped"
    /\ UNCHANGED <<store, locals, log, crow, ccoder, cobj>>

(***************************************************************************)
(* The rows given to the operations.                                       *)
(***************************************************************************)
Row(usr, proj, date, strt, end, hrs, tagsField, repo, iss, comment) ==
    <<usr, proj, date, strt, end, hrs, tagsField, repo, iss, comment>>

D0301    == <<"2", "0", "2", "4", "-", "0", "3", "-", "0", "1">>
D31      == <<"2", "0", "2", "4", "-", "3", "-", "1">>
DFeb30   == <<"2", "0", "2", "4", "-", "0", "2", "-", "3", "0">>
DDotted  == <<"0", "1", ".", "0", "3", ".", "2", "0", "2", "4">>
T0900    == <<"0", "9", ":", "0", "0">>
T900     == <<"9", ":", "0", "0">>
T1700    == <<"1", "7", ":", "0", "0">>
T1800    == <<"1", "8", ":", "0", "0">>
T5pm     == <<"0", "5", ":", "0", "0", ":", "0", "0", " ", "P", "M">>
T1230am  == <<"1", "2", ":", "3", "0", ":", "1", "5", " ", "a", "m">>
TNoon    == <<"n", "o", "o", "n">>
D0402    == <<"2", "0", "2", "4", "-", "0", "4", "-", "0", "2">>
H800     == <<"8", ".", "0", "0">>
H8       == <<"8">>
H75      == <<"7", ".", "5">>
HBad     == <<"8", "h">>
GDevUrg  == <<"d", "e", "v", ",", " ", "u", "r", "g">>
GDev     == <<"d", "e", "v">>
GDevCap  == <<"D", "e", "v", ",", "q", "a">>
GBlank   == <<" ", ",", " ">>
GEmpty   == <<>>

\* the example row of the documentation, and the same entry reported again
RowA17    == Row("alice", "Acme", D0301, T0900, T1700, H800, GDevUrg, "repo-x", "42", "")
RowA18    == Row("alice", "Acme", D0301, T0900, T1800, H800, GDev, "repo-x", "42", "")
RowA17iss == Row("alice", "", D31, T900, T1700, H8, GDevCap, "repo-x", "42", "")
RowBob    == Row("bob", "Beta", D0402, <<>>, <<>>, <<>>, GDev, "", "", "fix")
\* rows with no tag
RowNoTagGhost == Row("ghost", "Acme", D0301, T0900, T1700, H800, GEmpty, "", "", "")
RowNoTagIdle  == Row("idle", "Acme", D0301, T0900, T1700, H800, GBlank, "", "", "")
RowNoTagBad   == Row("alice", "Beta", DDotted, T0900, T1700, HBad, GEmpty, "repo-x", "42", "")
RowNoTagNope  == Row("alice", "Nope", D0301, T0900, T1700, H800, GBlank, "", "", "")
\* rows for a project the coder has no group for
RowBeta       == Row("alice", "Beta", D0301, T0900, T1700, H800, GDev, "", "", "")
RowBetaIss    == Row("alice", "", D0301, T0900, T1700, H800, GDev, "repo-x", "7", "")
RowBetaDate   == Row("alice", "Beta", DFeb30, T0900, T1700, H800, GDev, "", "", "")
RowBetaHrs    == Row("alice", "Beta", D0301, T0900, T1700, HBad, GDev, "", "", "")

\* <<row, coder>> pairs: ten fields and no coder, or nine fields and a coder
NoCoderCalls(rows) == {<<r, NoCoder>> : r \in rows}
CoderCalls(rows, user) == {<<Tail(r), Coder(user)>> : r \in rows}

SeqCalls ==
    NoCoderCalls({RowA17, RowA18, RowA17iss, RowBob, RowNoTagGhost,
                  RowNoTagIdle, RowNoTagBad, RowNoTagNope, RowBeta, RowBetaIss,
                  RowBetaDate, RowBetaHrs})
    \cup CoderCalls({RowA18, RowNoTagBad}, "alice")

ConcCalls == NoCoderCalls({RowA17, RowA18})

BillingCalls == NoCoderCalls({RowA17, RowA18})

(***************************************************************************)
(* Specifications.                                                         *)
(*   Spec         requests r1 and r2 interleave at every access to the     *)
(*                store                                                    *)
(*   SpecSeq      csv_get_or_create calls made one after the other         *)
(*   SpecBilling  one request at a time: imports, the billing mutators     *)
(*                and changes of an entry's date                           *)
(*   SpecCodec    _csv_parse and csv_dump applied to a row                 *)
(***************************************************************************)
ImportSteps(p) ==
    \/ CreateHours(p)
    \/ ResolveTag(p)
    \/ ClearTags(p)
    \/ AddTags(p)
    \/ SaveHours(p)

BillingSteps(p) ==
    \/ \E pk \in DOMAIN hours : Load(p, pk)
    \/ Release(p)
    \/ set_default_coder_billing_month(p)
    \/ set_default_project_billing_month(p)
    \/ CreateMonth(p)
    \/ SaveBilling(p)

Next ==
    \E p \in Procs :
        \/ \E c \in ConcCalls : csv_get_or_create(p, c[1], c[2])
        \/ ImportSteps(p)

Spec == Init /\ [][Next]_vars

NextSeq ==
    \/ \E c \in SeqCalls : csv_get_or_create("r1", c[1], c[2])
    \/ ImportSteps("r1")

SpecSeq == Init /\ [][NextSeq]_vars

NextBilling ==
    \/ /\ Len(log) < MaxImports
       /\ \E c \in BillingCalls : csv_get_or_create("r1", c[1], c[2])
    \/ ImportSteps("r1")
    \/ BillingSteps("r1")
    \/ \E d \in OtherDates : ChangeDate("r1", d)

SpecBilling == Init /\ [][NextBilling]_vars

\* the row csv_get_or_create leaves in the table for a row it accepts
Imported(row) ==
    LET q == _csv_parse(row, NoCoder)
    IN  RowOf(SetExtraFields(NewInstance(1, q), q), Range(q.tags_to_be))

\* a store that imports of RowA17 and RowBob have filled
InitMonths ==
    /\ hours = <<Imported(RowA17), Imported(RowBob)>>
    /\ hourtags = Range(NormalizeTags(GDevUrg))
    /\ months = <<>>
    /\ pc = [p \in Procs |-> "idle"]
    /\ arg = [p \in Procs |-> <<>>]
    /\ parsed = [p \in Procs |-> NoObj]
    /\ obj = [p \in Procs |-> NoObj]
    /\ created = [p \in Procs |-> FALSE]
    /\ todo = [p \in Procs |-> <<>>]
    /\ tags = [p \in Procs |-> <<>>]
    /\ side = [p \in Procs |-> "none"]
    /\ log = <<>>
    /\ InitCodecIdle

NextMonths == \E p \in Procs : BillingSteps(p)

SpecMonths == InitMonths /\ [][NextMonths]_vars

\* every tags field of at most MaxTagsLen characters over this alphabet
TagChars == {"a", "A", " ", ","}

TagFields == UNION {[1..n -> TagChars] : n \in 0..MaxTagsLen}

\* the rows of a codec run: every tags field with the other fields fixed,
\* and every combination of the other fields with two tags fields
CodecRows ==
    {Row(usr, "Acme", D0301, T0900, T1700, H800, g, "repo-x", "42", "fix") :
        usr \in {"alice", "ghost"}, g \in TagFields}
    \cup
    {Row("alice", f[1], f[2], f[3], f[4], f[5], f[6], f[7], f[8], "") :
        f \in {"", "Acme", "Beta"}
              \X {D0301, D31, DFeb30}
              \X {<<>>, T0900, T900, T5pm, TNoon}
              \X {T1700, T1230am}
              \X {<<>>, H8, H75}
              \X {GDev, GDevCap}
              \X {"", "repo-x", "tools", "nope"}
              \X {"", "42", "99"}}

InitCodec ==
    /\ InitStore
    /\ \E c \in NoCoderCalls(CodecRows) \cup CoderCalls(CodecRows, "alice") :
          crow = c[1] /\ ccoder = c[2]
    /\ cobj = NoObj
    /\ cout = <<>>
    /\ cphase = "input"

NextCodec == CodecParse \/ CodecDump

SpecCodec == InitCodec /\ [][NextCodec]_vars

(***************************************************************************)
(* Properties.                                                             *)
(***************************************************************************)
\* field n of a row, counted without the leading username: 1 project name,
\* 2 date, 3 start time, 4 end time, 5 amount, 6 tags, 7 repository name,
\* 8 issue number, 9 comment
FieldOf(row, n) == row[Len(row) - 9 + n]

\* the identity key the row of a logged call parses to
KeyOfCall(e) == HOURS_IDENTITY_FIELDS(_csv_parse(e.row, e.coder))

OkCalls == {i \in 1..Len(log) : log[i].status = "ok"}

\* a csv_get_or_create call returns or raises in this step
Returns == Len(log') = Len(log) + 1

\* the tags field holds nothing but commas and blanks
NoTagIn(field) == \A i \in 1..Len(field) : field[i] \in {",", " "}

\* C1: in a sequence of csv_get_or_create calls made one after the other on
\* an initially empty store, a call returns created=True exactly when no
\* earlier call had a row of the same identity key; between calls there is
\* exactly one stored entry for the key of every call that returned, and
\* its end_time and input_data_json are those parsed from the latest call
\* with that key.
C1_SequentialImport ==
    LET key == [i \in OkCalls |-> KeyOfCall(log[i])]
    IN  /\ \A i \in OkCalls :
              log[i].created = (\A j \in OkCalls : j < i => key[j] # key[i])
        /\ pc["r1"] = "idle" =>
              \A i \in OkCalls :
                  LET same == {pk \in DOMAIN hours :
                                  HOURS_IDENTITY_FIELDS(hours[pk]) = key[i]}
                  IN  /\ Cardinality(same) = 1
                      /\ (\A j \in OkCalls : j > i => key[j] # key[i])
                            => \A pk \in same :
                                  /\ hours[pk].end_time =
                                        parse_time(FieldOf(log[i].row, 4))
                                  /\ hours[pk].input_data_json = <<log[i].row>>

\* three imports of one entry, the second and third with end_time 18:00:
\* one stored row, end_time 18:00
C1_Witness ==
    /\ pc["r1"] = "idle"
    /\ Len(log) = 3
    /\ log[1].row = RowA17 /\ log[1].created
    /\ log[2].row = RowA18 /\ ~log[2].created
    /\ log[3].row = RowA18 /\ ~log[3].created
    /\ Len(hours) = 1
    /\ hours[1].end_time = <<18, 0, 0>>

\* C2: under every interleaving of csv_get_or_create calls for rows of one
\* identity key there is at most one stored entry per key, at most one of
\* the calls reports created=True, and no call fails on duplicates.
C2_AtomicFindOrCreate ==
    /\ \A a, b \in DOMAIN hours :
          HOURS_IDENTITY_FIELDS(hours[a]) = HOURS_IDENTITY_FIELDS(hours[b]) => a = b
    /\ \A i, j \in OkCalls :
          (KeyOfCall(log[i]) = KeyOfCall(log[j]) /\ log[i].created /\ log[j].created)
              => i = j
    /\ \A i \in 1..Len(log) : log[i].status # "MultipleObjectsReturned"

\* C3: csv_get_or_create writes to the store only once the pending entry
\* with all its tags is built: while a call still has tags to resolve it
\* has inserted no entry.
C3_NoWriteBeforeBuilt ==
    \A p \in Procs : (pc[p] = "tags" /\ todo[p] # <<>>) => ~created[p]

\* C4: every stored Hours entry has at least one tag, in every state,
\* those between the steps of csv_get_or_create included.
C4_TagsNeverEmpty == \A pk \in DOMAIN hours : hours[pk].tags # {}

\* the Month rows the stored entries are billed to
BilledMonths ==
    {hours[pk].coder_billing_month : pk \in DOMAIN hours}
    \cup {hours[pk].project_billing_month : pk \in DOMAIN hours}

\* C9: under every interleaving of get_from_date calls there is at most one
\* Month row per (year, month), and the calls for one (year, month) all
\* return the same row: entries billed to one (year, month) are billed to
\* one Month row.
C9_OneMonthPerYearMonth ==
    /\ \A a, b \in DOMAIN months : months[a] = months[b] => a = b
    /\ \A a, b \in BilledMonths \ {0} : months[a] = months[b] => a = b

\* the project the fields of a logged call resolve to by lines 83-95, None
\* when the lookups fail
ResolvedProject(e) ==
    LET proj  == FieldOf(e.row, 1)
        repo  == try_to_get_by_name(FieldOf(e.row, 7))
        issue == IF repo # NoneS THEN try_to_get_issue(repo, FieldOf(e.row, 8))
                 ELSE None
        b     == IF issue # None THEN try_to_get_project(issue) ELSE NoneS
    IN  IF proj = "" THEN b
        ELSE IF proj \in ProjectNames /\ b \in {NoneS, proj} THEN proj
        ELSE NoneS

\* the coder of a logged call is known, its row has tags, and its project
\* resolves to one outside the coder's project list
Unauthorized(e) ==
    /\ e.coder # NoCoder \/ CoderGetError(e.row[1]) = "ok"
    /\ ~NoTagIn(FieldOf(e.row, 6))
    /\ ResolvedProject(e) # NoneS
    /\ ResolvedProject(e) \notin
          (IF e.coder # NoCoder THEN e.coder[2] ELSE UserProjects(e.row[1]))

AllEntriesAuthorized ==
    \A pk \in DOMAIN hours' :
        hours'[pk].project \in UserProjects(hours'[pk].coder)

\* C5 as claimed: every stored entry's project is in its coder's project
\* list, and a call whose row resolves to a project outside the list fails
\* with 'Not allowed' and leaves the store as it was.
C5_NotAllowedAlways ==
    [][/\ AllEntriesAuthorized
       /\ (Returns /\ Unauthorized(log'[Len(log')])) =>
             /\ log'[Len(log')].status = "AssertionError: Not allowed"
             /\ UNCHANGED store]_vars

\* C5 as amended: every stored entry's project is in its coder's project
\* list, and a call whose row resolves to a project outside the list fails
\* and leaves the store as it was; it fails with 'Not allowed' when the
\* date and the amount of the row parse, with the date's ValueError or the
\* amount's InvalidOperation otherwise.
C5_UnauthorizedFails ==
    [][/\ AllEntriesAuthorized
       /\ (Returns /\ Unauthorized(log'[Len(log')])) =>
             LET e == log'[Len(log')]
             IN  /\ e.status =
                       IF ~DateOk(FieldOf(e.row, 2)) THEN "ValueError: date"
                       ELSE IF FieldOf(e.row, 5) # <<>> /\ ~DecimalOk(FieldOf(e.row, 5))
                       THEN "InvalidOperation: amount"
                       ELSE "AssertionError: Not allowed"
                 /\ UNCHANGED store]_vars

\* a row for Beta by alice was refused as not allowed, one with a date
\* that does not parse was refused for the date, and bob's row for Beta
\* was stored
C5_Witness ==
    /\ Len(log) = 3
    /\ \E i, j, k \in 1..3 :
          /\ log[i].row = RowBeta /\ log[i].status = "AssertionError: Not allowed"
          /\ log[j].row = RowBetaDate /\ log[j].status = "ValueError: date"
          /\ log[k].row = RowBob /\ log[k].status = "ok"
    /\ Len(hours) = 1
    /\ hours[1].project = "Beta"

\* C6: when a csv_get_or_create call returns, the tag relation of its
\* entry is exactly the set of tags the row's tags field names once split
\* on commas, stripped, lowercased and rid of empties, each of them a row
\* of the HourTag table; no step removes a row of the HourTag table.
C6_TagsReplaced ==
    [][/\ hourtags \subseteq hourtags'
       /\ (Returns /\ log'[Len(log')].status = "ok") =>
             LET e == log'[Len(log')]
                 names == Range(NormalizeTags(FieldOf(e.row, 6)))
             IN  /\ hours'[e.pk].tags = names
                 /\ names \subseteq hourtags']_vars

\* the entry imported with tags 'dev, urg' and then with 'dev' has the one
\* tag dev, and the tag urg is still in the table
C6_Witness ==
    /\ pc["r1"] = "idle"
    /\ Len(log) = 2
    /\ log[1].row = RowA17 /\ log[1].status = "ok"
    /\ log[2].row = RowA18 /\ log[2].status = "ok" /\ log[2].pk = log[1].pk
    /\ hours[log[2].pk].tags = {GDev}
    /\ hourtags = {GDev, <<"u", "r", "g">>}

\* C7 as claimed: a call whose row has no tag fails with
\* AtLeastOneTagRequired whatever its other fields and whether or not a
\* coder is given, and leaves the store as it was.
C7_NoTagAlwaysTagError ==
    [][(Returns /\ NoTagIn(FieldOf(log'[Len(log')].row, 6))) =>
          /\ log'[Len(log')].status = "AtLeastOneTagRequired"
          /\ UNCHANGED store]_vars

\* C7 as amended: a call whose row has no tag fails and leaves the store as
\* it was; it fails with AtLeastOneTagRequired whatever its project, date,
\* amount, repository and issue, provided a coder is given or the username
\* resolves to a coder, and with the error of Coder.get otherwise.
C7_NoTagFails ==
    [][(Returns /\ NoTagIn(FieldOf(log'[Len(log')].row, 6))) =>
          LET e == log'[Len(log')]
          IN  /\ e.status =
                    IF e.coder = NoCoder /\ e.row[1] \notin Users
                    THEN "User.DoesNotExist"
                    ELSE IF e.coder = NoCoder /\ UserProjects(e.row[1]) = {}
                    THEN "NoCoderProjects"
                    ELSE "AtLeastOneTagRequired"
              /\ UNCHANGED store]_vars

\* rows with no tag were refused: one of an unknown user for the user, one
\* with a mismatching project and a malformed date for the tags, with and
\* without a coder given
C7_Witness ==
    /\ Len(log) = 3
    /\ log[1].row = RowNoTagGhost /\ log[1].status = "User.DoesNotExist"
    /\ log[2].row = RowNoTagBad /\ log[2].status = "AtLeastOneTagRequired"
    /\ log[3].row = Tail(RowNoTagBad) /\ log[3].status = "AtLeastOneTagRequired"
    /\ hours = <<>> /\ hourtags = {}

\* the Month row the date falls in
MonthIsOf(k, date) == months'[k] = <<date[1], date[2]>>

\* C8: a billing month of a stored entry, once set, is never changed, by
\* either mutator, by a change of the entry's date or by a re-import; when
\* a step sets one, it sets it to the Month of the entry's date and leaves
\* the other side's billing month as it was.
C8_FirstWriteWins ==
    [][\A pk \in DOMAIN hours :
          LET old == hours[pk]
              new == hours'[pk]
          IN  /\ old.coder_billing_month # 0 =>
                    new.coder_billing_month = old.coder_billing_month
              /\ old.project_billing_month # 0 =>
                    new.project_billing_month = old.project_billing_month
              /\ new.coder_billing_month # old.coder_billing_month =>
                    /\ MonthIsOf(new.coder_billing_month, new.date)
                    /\ new.project_billing_month = old.project_billing_month
              /\ new.project_billing_month # old.project_billing_month =>
                    /\ MonthIsOf(new.project_billing_month, new.date)
                    /\ new.coder_billing_month = old.coder_billing_month]_vars

\* an entry billed to the coder in one month and to the project in another,
\* its date moved since and the entry imported again
C8_Witness ==
    /\ pc["r1"] = "loaded"
    /\ Len(log) = 2 /\ ~log[2].created
    /\ LET r == hours[obj["r1"].pk]
       IN  /\ r.coder_billing_month # 0
           /\ r.project_billing_month # 0
           /\ r.coder_billing_month # r.project_billing_month
           /\ months[r.coder_billing_month] = <<2024, 3>>
           /\ months[r.project_billing_month] = <<2024, 4>>
           /\ r.date = <<2024, 3, 1>>
           /\ r.end_time = <<18, 0, 0>>

\* a time field as csv_dump writes it: empty, or a zero-padded 24-hour HH:MM
WrittenTime(x) ==
    \/ x = <<>>
    \/ /\ Len(x) = 5
       /\ x[3] = ":"
       /\ {x[1], x[2], x[4], x[5]} \subseteq DigitChars
       /\ 10 * DigitVal(x[1]) + DigitVal(x[2]) <= 23
       /\ DigitVal(x[4]) <= 5

\* a tags field as csv_dump writes it: no blank, no capital, no empty element
WrittenTags(g) ==
    /\ g # <<>>
    /\ \A i \in 1..Len(g) : g[i] # " " /\ LowerChar(g[i]) = g[i]
    /\ g[1] # "," /\ g[Len(g)] # ","
    /\ \A i \in 1..(Len(g) - 1) : ~(g[i] = "," /\ g[i + 1] = ",")

\* a repository name as csv_dump writes it: empty, or the distinct name of
\* the repository it finds
WrittenRepo(repo) ==
    repo = "" \/ (try_to_get_by_name(repo) # NoneS /\ get_distinct_name(repo) = repo)

\* an issue number as csv_dump writes it: empty, or one the repository has
WrittenIssue(repo, iss) ==
    \/ iss = ""
    \/ /\ try_to_get_by_name(repo) # NoneS
       /\ try_to_get_issue(try_to_get_by_name(repo), iss) # None

\* the dump of the parsed row has the fields of the row given
SameShape == cphase = "dumped" /\ Len(cout) = Len(crow)

====
